---- MODULE Spec2Model ----
(***************************************************************************)
(* The in-memory session store of src/app.py: SESSIONS, the sweep          *)
(* _cleanup_expired_sessions, create_session, get_session and              *)
(* destroy_session; and the views that use it to guard the points table.   *)
(*                                                                         *)
(* Spec     runs the calls one at a time (one action per call, the clock   *)
(*          may advance between the two clock reads of a call).            *)
(* SpecConc runs the same code in several request threads, one step per    *)
(*          dict read/write or clock read.                                 *)
(* SpecApp  runs the requests of the application one at a time: the        *)
(*          before_request hook load_current_user, then the view (login,   *)
(*          logout, add_grade, edit_grade, delete_grade, any other page).  *)
(***************************************************************************)
EXTENDS Integers, FiniteSets, Sequences, TLC

\* ------------------------------------------------------------- bounds
NumTokens == 2
MaxTicks == 3
MaxCalls == 4
NumThreads == 2
MaxConcCalls == 3
MaxConcTicks == 2
MaxRequests == 3
MaxGrades == 1

\* ---------------------------------------------------------- constants
SESSION_TTL_SECONDS == 60 * 60

\* A falsy session_id ("" or None): `if not session_id`.
EmptyToken == 0
\* The values secrets.token_urlsafe(32) can return.
Tokens == 1..NumTokens
\* The rows of the users table login() passes to create_session.
Users == {[id |-> 1, login |-> "admin"], [id |-> 2, login |-> "student"]}

\* How far the clock (whole seconds) moves between two calls.
Deltas == {1, SESSION_TTL_SECONDS \div 2}
\* How far it moves between two steps of the request threads.
ConcDeltas == {1, SESSION_TTL_SECONDS}
\* How far it moves between two requests.
AppDeltas == {SESSION_TTL_SECONDS \div 2 + 1}
\* How far it moves between the two clock reads of one call.
InnerDeltas == {0, 1}

NoTime == 0 - 1
NoRecord == [user_id |-> 0, login |-> "", created_at |-> NoTime, expires_at |-> NoTime]

VARIABLES
    SESSIONS,   \* the dict: a function from the stored tokens to their records
    now,        \* int(time.time())
    ticks,      \* how often the clock has advanced (bounded by MaxTicks)
    last,       \* the last call: its number, arguments, clock reads and return value
    lastTouch,  \* history: token -> clock value of its creation or last successful
                \* lookup, for the tokens created and not destroyed since
    owner,      \* history: token -> the user the latest create_session returning it was for
    destroyed   \* history: the tokens destroyed and not returned by create_session since

\* The same store as the request threads of SpecConc see it.
VARIABLES
    entries,    \* SESSIONS as CPython keeps it: its entries in insertion order, each a
                \* key and a reference to a record; a popped entry stays as a dummy
    heap,       \* the records create_session has built, by reference
    pc,         \* thread -> where it stands in its call
    fr,         \* thread -> the locals of its call
    res,        \* thread -> what its last call returned or raised
    started,    \* the calls begun (bounded by MaxConcCalls)
    lost        \* history: the records a sweep popped that had not expired at its clock

\* The application around the store.
VARIABLES
    points,     \* the points table: id -> row (id_student, id_course, value)
    seq,        \* its AUTOINCREMENT counter: the largest id ever given
    jar,        \* the session_id cookie the browser holds and when it drops it
    req,        \* the last request: what it carried, g.current_user, the response
    visit       \* history: the login of the browser and its last request since

seqVars == <<SESSIONS, last, lastTouch, owner, destroyed>>
concVars == <<entries, heap, pc, fr, res, started, lost>>
appVars == <<points, seq, jar, req, visit>>
vars == <<SESSIONS, now, ticks, last, lastTouch, owner, destroyed,
          entries, heap, pc, fr, res, started, lost,
          points, seq, jar, req, visit>>

\* The tokens create_session has returned.
issued == DOMAIN owner

\* ------------------------------------------------- the application
\* The browser holds no session_id cookie.
NoCookie == [sid |-> EmptyToken, expires |-> NoTime]

\* The fields of the grade form as request.form.get returns them ("" for a field
\* left out or empty).
NoForm == [student_id |-> "", course_id |-> "", value |-> ""]

NoRequest ==
    [n |-> 0, route |-> "none", method |-> "GET", browser |-> FALSE, cookie |-> EmptyToken,
     current |-> NoRecord, status |-> "none", form |-> NoForm, grade_id |-> 0]

\* History: the user the browser logged in as, the token it was given, the clock of
\* its last request, and live: the token has not been destroyed or drawn again and
\* the browser has let no TTL pass between two requests.
NoVisit == [user_id |-> 0, sid |-> EmptyToken, at |-> NoTime, live |-> FALSE]

\* The value fields the forms send.
ValueInputs == {"abc", "nan", "-1", "0.5", "95.6", "100", "105"}

\* The forms a POST sends; a GET sends none.
Forms ==
    {[student_id |-> "1", course_id |-> "1", value |-> v] : v \in ValueInputs}
    \cup {NoForm, [student_id |-> "x", course_id |-> "1", value |-> "100"]}

FormsOf(method) == IF method = "POST" THEN Forms ELSE {NoForm}

\* ------------------------------------------------------ pure helpers
\* dict.pop(sid, None)
Pop(S, sid) == [k \in DOMAIN S \ {sid} |-> S[k]]

\* S[sid] = rec
Put(S, sid, rec) == [k \in DOMAIN S \cup {sid} |-> IF k = sid THEN rec ELSE S[k]]

\* Mutant: the sweep tests the creation time, not the sliding expiry.
IsExpired_Created(data, t) == data.created_at + SESSION_TTL_SECONDS < t

\* The test of the sweep: data.get("expires_at", 0) < now
IsExpired(data, t) == data.expires_at < t

\* Mutant: the lookup rejects a record at the second it expires.
LookupExpired_Inclusive(data, t) == data.expires_at <= t

\* The test of get_session: data.get("expires_at", 0) < now
LookupExpired(data, t) == data.expires_at < t

expired_keys(S, t) == {sid \in DOMAIN S : IsExpired(S[sid], t)}

\* Mutant: the sweep removes nothing.
cleanup_NoSweep(S, t) == S

\* _cleanup_expired_sessions with the clock reading t.
cleanup_expired_sessions(S, t) == [k \in DOMAIN S \ expired_keys(S, t) |-> S[k]]

\* Mutant: the record is built without the login passed.
NewRecord_NoLogin(user_id, login, t) ==
    [user_id |-> user_id, login |-> "", created_at |-> t,
     expires_at |-> t + SESSION_TTL_SECONDS]

\* The record create_session builds at clock reading t.
NewRecord(user_id, login, t) ==
    [user_id |-> user_id, login |-> login, created_at |-> t,
     expires_at |-> t + SESSION_TTL_SECONDS]

\* Mutant: SESSIONS = {session_id: {...}}, the store rebuilt around the new record.
Insert_Replace(S, sid, rec) == [k \in {sid} |-> rec]

\* SESSIONS[session_id] = {...} in create_session
Insert(S, sid, rec) == Put(S, sid, rec)

\* Mutant: a lookup does not extend the expiry.
Extend_NoTouch(data, t) == data

\* Mutant: the extension is one second short.
Extend_Short(data, t) == [data EXCEPT !.expires_at = t + SESSION_TTL_SECONDS - 1]

\* data["expires_at"] = now + SESSION_TTL_SECONDS
Extend(data, t) == [data EXCEPT !.expires_at = t + SESSION_TTL_SECONDS]

\* Mutant: the sweep of get_session drops every record created before its clock read.
LookupSweep_Idle(S, t) == [k \in {x \in DOMAIN S : ~(S[x].created_at < t)} |-> S[k]]

\* The sweep at the head of get_session (a falsy session_id returned before it).
LookupSweep(S, t) == cleanup_expired_sessions(S, t)

\* Mutant: create_session without its sweep.
CreateSweep_None(S, t) == S

\* The sweep at the head of create_session.
CreateSweep(S, t) == cleanup_expired_sessions(S, t)

\* Mutant: destroy_session leaves the record.
DestroyStore_Keep(S, sid) == S

\* What destroy_session does to the store.
DestroyStore(S, sid) == IF sid = EmptyToken THEN S ELSE Pop(S, sid)

Min(A) == CHOOSE x \in A : \A y \in A : x <= y

\* secrets.token_urlsafe(32): a value drawn before (nothing in create_session
\* compares the draw with SESSIONS), or a new one. Tokens are opaque, so the new
\* values are drawn in order.
token_urlsafe == issued \cup (IF Tokens \subseteq issued THEN {} ELSE {Min(Tokens \ issued)})

TouchOf(sid) == IF sid \in DOMAIN lastTouch THEN lastTouch[sid] ELSE NoTime

\* The record of a call. t0 is the clock read of its sweep and t the clock read of
\* its body (NoTime when the call returned before it). History: at is the clock when
\* the call began and prev the last touch of sid before the call.
Call(op, sid, user_id, login, ok, data, t0, t) ==
    [n |-> last.n + 1, op |-> op, sid |-> sid, user_id |-> user_id, login |-> login,
     ok |-> ok, data |-> data, t0 |-> t0, t |-> t, at |-> now, prev |-> TouchOf(sid)]

Threads == 1..NumThreads

\* The locals of a call: cnow, the iterator (it_used, it_len, it_pos), the item it
\* yielded (cur_key, cur_obj) and expired_keys are those of
\* _cleanup_expired_sessions; data and tnow those of the caller.
NoFrame ==
    [op |-> "none", sid |-> EmptyToken, user_id |-> 0, login |-> "", cnow |-> NoTime,
     it_used |-> 0, it_len |-> 0, it_pos |-> 0, cur_key |-> EmptyToken, cur_obj |-> 0,
     expired |-> <<>>, data |-> 0, tnow |-> NoTime]

\* kind: "none" (returned None), "token", "record" or "error" (RuntimeError raised).
\* History: stored tells whether the record returned was the one in SESSIONS.
NoResult == [op |-> "none", kind |-> "none", sid |-> EmptyToken, obj |-> 0, stored |-> FALSE]

\* ------------------------------------------------------------ actions
Init ==
    /\ SESSIONS = <<>>
    /\ now = 0
    /\ ticks = 0
    /\ last = [n |-> 0, op |-> "none", sid |-> EmptyToken, user_id |-> 0, login |-> "",
               ok |-> FALSE, data |-> NoRecord, t0 |-> NoTime, t |-> NoTime,
               at |-> NoTime, prev |-> NoTime]
    /\ lastTouch = <<>>
    /\ owner = <<>>
    /\ destroyed = {}
    /\ entries = <<>>
    /\ heap = <<>>
    /\ pc = [th \in Threads |-> "idle"]
    /\ fr = [th \in Threads |-> NoFrame]
    /\ res = [th \in Threads |-> NoResult]
    /\ started = 0
    /\ lost = {}
    /\ points = <<>>
    /\ seq = 0
    /\ jar = NoCookie
    /\ req = NoRequest
    /\ visit = NoVisit

\* The run is cut after MaxCalls calls.
CanCall == last.n < MaxCalls

\* The clock advances between two calls.
Tick(d) ==
    /\ ticks < MaxTicks
    /\ now' = now + d
    /\ ticks' = ticks + 1
    /\ UNCHANGED <<seqVars, concVars, appVars>>

\* The clock between the two reads of one call.
Advance(d) ==
    /\ d > 0 => ticks < MaxTicks
    /\ now' = now + d
    /\ ticks' = IF d > 0 THEN ticks + 1 ELSE ticks

\* create_session(user_id, login), the token drawn being sid.
create_session(user_id, login, sid, d) ==
    LET swept == CreateSweep(SESSIONS, now)
        t == now + d
        rec == NewRecord(user_id, login, t)
    IN  /\ CanCall
        /\ Advance(d)
        /\ SESSIONS' = Insert(swept, sid, rec)
        /\ last' = Call("create", sid, user_id, login, TRUE, rec, now, t)
        /\ lastTouch' = Put(lastTouch, sid, t)
        /\ owner' = Put(owner, sid, [id |-> user_id, login |-> login])
        /\ destroyed' = destroyed \ {sid}
        /\ UNCHANGED <<concVars, appVars>>

\* get_session(session_id) with a falsy session_id.
get_session_empty ==
    /\ CanCall
    /\ last' = Call("get", EmptyToken, 0, "", FALSE, NoRecord, NoTime, NoTime)
    /\ UNCHANGED <<SESSIONS, now, ticks, lastTouch, owner, destroyed, concVars, appVars>>

\* get_session(session_id) with a token.
get_session(sid, d) ==
    LET swept == LookupSweep(SESSIONS, now)
        t == now + d
    IN  /\ CanCall
        /\ IF sid \notin DOMAIN swept
           THEN \* data is None: returned before the second clock read
                /\ d = 0
                /\ SESSIONS' = swept
                /\ last' = Call("get", sid, 0, "", FALSE, NoRecord, now, NoTime)
                /\ UNCHANGED <<now, ticks, lastTouch, owner, destroyed>>
           ELSE IF LookupExpired(swept[sid], t)
           THEN /\ Advance(d)
                /\ SESSIONS' = Pop(swept, sid)
                /\ last' = Call("get", sid, 0, "", FALSE, NoRecord, now, t)
                /\ UNCHANGED <<lastTouch, owner, destroyed>>
           ELSE /\ Advance(d)
                /\ SESSIONS' = Put(swept, sid, Extend(swept[sid], t))
                /\ last' = Call("get", sid, 0, "", TRUE, Extend(swept[sid], t), now, t)
                /\ lastTouch' = Put(lastTouch, sid, t)
                /\ UNCHANGED <<owner, destroyed>>
        /\ UNCHANGED <<concVars, appVars>>

\* destroy_session(session_id)
destroy_session(sid) ==
    /\ CanCall
    /\ SESSIONS' = DestroyStore(SESSIONS, sid)
    /\ last' = Call("destroy", sid, 0, "", FALSE, NoRecord, NoTime, NoTime)
    /\ lastTouch' = Pop(lastTouch, sid)
    /\ destroyed' = IF sid = EmptyToken THEN destroyed ELSE destroyed \cup {sid}
    /\ UNCHANGED <<now, ticks, owner, concVars, appVars>>

Next ==
    \/ \E d \in Deltas : Tick(d)
    \/ \E user \in Users, sid \in token_urlsafe, d \in InnerDeltas :
          create_session(user.id, user.login, sid, d)
    \/ get_session_empty
    \/ \E sid \in Tokens, d \in InnerDeltas : get_session(sid, d)
    \/ \E sid \in Tokens \cup {EmptyToken} : destroy_session(sid)

Spec == Init /\ [][Next]_vars

\* ---------------------------------------------------- request threads
\* One step per dict read or write and per clock read, as the threads of the
\* server interleave them. No step takes a lock: the source has none.

Dummy == [key |-> EmptyToken, obj |-> 0]

\* ma_used: the number of live entries.
Used(E) == Cardinality({i \in 1..Len(E) : E[i].key # EmptyToken})

\* SESSIONS.get(sid): the reference stored under sid, 0 for None.
DictGet(E, sid) ==
    IF \E i \in 1..Len(E) : E[i].key = sid
    THEN E[CHOOSE i \in 1..Len(E) : E[i].key = sid].obj
    ELSE 0

\* SESSIONS.pop(sid, None)
DictPop(E, sid) == [i \in 1..Len(E) |-> IF E[i].key = sid THEN Dummy ELSE E[i]]

\* SESSIONS[sid] = obj: in place for a key that is there, a new entry otherwise.
DictSet(E, sid, obj) ==
    IF \E i \in 1..Len(E) : E[i].key = sid
    THEN [i \in 1..Len(E) |-> IF E[i].key = sid THEN [key |-> sid, obj |-> obj] ELSE E[i]]
    ELSE Append(E, [key |-> sid, obj |-> obj])

\* The first live entry at or after position p, 0 when there is none.
NextLive(E, p) ==
    IF \E i \in p..Len(E) : E[i].key # EmptyToken
    THEN Min({i \in p..Len(E) : E[i].key # EmptyToken})
    ELSE 0

\* Where a call goes on after its sweep.
Body(op) == IF op = "create" THEN "c_clock" ELSE "g_lookup"

Return(th, r) ==
    /\ res' = [res EXCEPT ![th] = r]
    /\ pc' = [pc EXCEPT ![th] = "idle"]
    /\ fr' = [fr EXCEPT ![th] = NoFrame]

Result(th, kind, obj, stored) ==
    [op |-> fr[th].op, kind |-> kind, sid |-> fr[th].sid, obj |-> obj, stored |-> stored]

\* create_session(user_id, login) begins: the sweep reads the clock.
CCreate(th, user_id, login) ==
    /\ pc[th] = "idle" /\ started < MaxConcCalls
    /\ started' = started + 1
    /\ fr' = [fr EXCEPT ![th] = [NoFrame EXCEPT !.op = "create", !.user_id = user_id,
                                                !.login = login, !.cnow = now]]
    /\ pc' = [pc EXCEPT ![th] = "iter"]
    /\ UNCHANGED <<entries, heap, res, lost, now, ticks, seqVars, appVars>>

\* get_session(sid) begins: None at once for a falsy sid, else the sweep reads the
\* clock.
CGet(th, sid) ==
    /\ pc[th] = "idle" /\ started < MaxConcCalls
    /\ started' = started + 1
    /\ IF sid = EmptyToken
       THEN /\ res' = [res EXCEPT ![th] = [NoResult EXCEPT !.op = "get"]]
            /\ UNCHANGED <<pc, fr>>
       ELSE /\ fr' = [fr EXCEPT ![th] = [NoFrame EXCEPT !.op = "get", !.sid = sid,
                                                       !.cnow = now]]
            /\ pc' = [pc EXCEPT ![th] = "iter"]
            /\ UNCHANGED res
    /\ UNCHANGED <<entries, heap, lost, now, ticks, seqVars, appVars>>

\* destroy_session(sid): one pop, or nothing for a falsy sid.
CDestroy(th, sid) ==
    /\ pc[th] = "idle" /\ started < MaxConcCalls
    /\ started' = started + 1
    /\ entries' = IF sid = EmptyToken THEN entries ELSE DictPop(entries, sid)
    /\ res' = [res EXCEPT ![th] = [NoResult EXCEPT !.op = "destroy", !.sid = sid]]
    /\ UNCHANGED <<heap, pc, fr, lost, now, ticks, seqVars, appVars>>

\* The iterator over SESSIONS.items() yielded the entry at position i.
Yield(th, used, len, i) ==
    /\ fr' = [fr EXCEPT ![th].it_used = used, ![th].it_len = len - 1, ![th].it_pos = i + 1,
                        ![th].cur_key = entries[i].key, ![th].cur_obj = entries[i].obj]
    /\ pc' = [pc EXCEPT ![th] = "test"]
    /\ UNCHANGED res

\* The iteration is over: on to the pops, or to the caller when there are none.
EndIter(th) ==
    /\ pc' = [pc EXCEPT ![th] = IF fr[th].expired = <<>> THEN Body(fr[th].op) ELSE "pop"]
    /\ UNCHANGED <<fr, res>>

\* The comprehension takes the iterator of SESSIONS.items() and its first item.
CIter(th) ==
    /\ pc[th] = "iter"
    /\ IF NextLive(entries, 1) = 0
       THEN EndIter(th)
       ELSE Yield(th, Used(entries), Used(entries), NextLive(entries, 1))
    /\ UNCHANGED <<entries, heap, started, lost, now, ticks, seqVars, appVars>>

\* The next item: RuntimeError when the dict changed size since the iterator was
\* taken, or holds an entry when all the items counted then have been yielded.
CNext(th) ==
    /\ pc[th] = "next"
    /\ IF fr[th].it_used # Used(entries)
       THEN Return(th, Result(th, "error", 0, FALSE))
       ELSE IF NextLive(entries, fr[th].it_pos) = 0
       THEN EndIter(th)
       ELSE IF fr[th].it_len = 0
       THEN Return(th, Result(th, "error", 0, FALSE))
       ELSE Yield(th, fr[th].it_used, fr[th].it_len, NextLive(entries, fr[th].it_pos))
    /\ UNCHANGED <<entries, heap, started, lost, now, ticks, seqVars, appVars>>

\* if data.get("expires_at", 0) < now: the key joins expired_keys.
CTest(th) ==
    /\ pc[th] = "test"
    /\ fr' = [fr EXCEPT ![th].expired =
                 IF IsExpired(heap[fr[th].cur_obj], fr[th].cnow)
                 THEN Append(@, fr[th].cur_key) ELSE @]
    /\ pc' = [pc EXCEPT ![th] = "next"]
    /\ UNCHANGED <<entries, heap, res, started, lost, now, ticks, seqVars, appVars>>

\* for sid in expired_keys: SESSIONS.pop(sid, None), one key.
CPop(th) ==
    /\ pc[th] = "pop"
    /\ LET sid == Head(fr[th].expired)
           obj == DictGet(entries, sid)
       IN  /\ entries' = DictPop(entries, sid)
           /\ lost' = IF obj # 0 /\ ~IsExpired(heap[obj], fr[th].cnow)
                      THEN lost \cup {obj} ELSE lost
    /\ fr' = [fr EXCEPT ![th].expired = Tail(@)]
    /\ pc' = [pc EXCEPT ![th] = IF Tail(fr[th].expired) = <<>> THEN Body(fr[th].op) ELSE "pop"]
    /\ UNCHANGED <<heap, res, started, now, ticks, seqVars, appVars>>

\* create_session: now = int(time.time())
CCreateClock(th) ==
    /\ pc[th] = "c_clock"
    /\ fr' = [fr EXCEPT ![th].tnow = now]
    /\ pc' = [pc EXCEPT ![th] = "c_insert"]
    /\ UNCHANGED <<entries, heap, res, started, lost, now, ticks, seqVars, appVars>>

\* create_session: SESSIONS[session_id] = {...}; return session_id. The token was
\* drawn before the clock read; nothing but this step uses it.
CCreateInsert(th, sid) ==
    /\ pc[th] = "c_insert"
    /\ heap' = Append(heap, NewRecord(fr[th].user_id, fr[th].login, fr[th].tnow))
    /\ entries' = DictSet(entries, sid, Len(heap) + 1)
    /\ Return(th, [Result(th, "token", Len(heap) + 1, TRUE) EXCEPT !.sid = sid])
    /\ UNCHANGED <<started, lost, now, ticks, seqVars, appVars>>

\* get_session: data = SESSIONS.get(session_id); None returned when there is none.
CGetLookup(th) ==
    /\ pc[th] = "g_lookup"
    /\ IF DictGet(entries, fr[th].sid) = 0
       THEN Return(th, Result(th, "none", 0, FALSE))
       ELSE /\ fr' = [fr EXCEPT ![th].data = DictGet(entries, fr[th].sid)]
            /\ pc' = [pc EXCEPT ![th] = "g_clock"]
            /\ UNCHANGED res
    /\ UNCHANGED <<entries, heap, started, lost, now, ticks, seqVars, appVars>>

\* get_session: now = int(time.time())
CGetClock(th) ==
    /\ pc[th] = "g_clock"
    /\ fr' = [fr EXCEPT ![th].tnow = now]
    /\ pc' = [pc EXCEPT ![th] = "g_test"]
    /\ UNCHANGED <<entries, heap, res, started, lost, now, ticks, seqVars, appVars>>

\* get_session: if data.get("expires_at", 0) < now
CGetTest(th) ==
    /\ pc[th] = "g_test"
    /\ pc' = [pc EXCEPT ![th] =
                 IF LookupExpired(heap[fr[th].data], fr[th].tnow) THEN "g_pop" ELSE "g_extend"]
    /\ UNCHANGED <<entries, heap, fr, res, started, lost, now, ticks, seqVars, appVars>>

\* get_session: SESSIONS.pop(session_id, None); return None
CGetPop(th) ==
    /\ pc[th] = "g_pop"
    /\ entries' = DictPop(entries, fr[th].sid)
    /\ Return(th, Result(th, "none", 0, FALSE))
    /\ UNCHANGED <<heap, started, lost, now, ticks, seqVars, appVars>>

\* get_session: data["expires_at"] = now + SESSION_TTL_SECONDS; return data
CGetExtend(th) ==
    /\ pc[th] = "g_extend"
    /\ heap' = [heap EXCEPT ![fr[th].data] = Extend(@, fr[th].tnow)]
    /\ Return(th, Result(th, "record", fr[th].data,
                         DictGet(entries, fr[th].sid) = fr[th].data))
    /\ UNCHANGED <<entries, started, lost, now, ticks, seqVars, appVars>>

\* The clock advances between two steps.
CTick(d) == ticks < MaxConcTicks /\ Tick(d)

NextConc ==
    \/ \E d \in ConcDeltas : CTick(d)
    \/ \E th \in Threads, user \in Users : CCreate(th, user.id, user.login)
    \/ \E th \in Threads, sid \in Tokens \cup {EmptyToken} : CGet(th, sid)
    \/ \E th \in Threads, sid \in Tokens \cup {EmptyToken} : CDestroy(th, sid)
    \/ \E th \in Threads : CIter(th)
    \/ \E th \in Threads : CNext(th)
    \/ \E th \in Threads : CTest(th)
    \/ \E th \in Threads : CPop(th)
    \/ \E th \in Threads : CCreateClock(th)
    \/ \E th \in Threads, sid \in Tokens : CCreateInsert(th, sid)
    \/ \E th \in Threads : CGetLookup(th)
    \/ \E th \in Threads : CGetClock(th)
    \/ \E th \in Threads : CGetTest(th)
    \/ \E th \in Threads : CGetPop(th)
    \/ \E th \in Threads : CGetExtend(th)

SpecConc == Init /\ [][NextConc]_vars

\* ------------------------------------------------------- requests
\* One action per request: load_current_user (before_request), then the view. A
\* request is over within the second: all its clock reads return now.

\* int(s): ok is FALSE for ValueError.
int(s) ==
    CASE s = "1" -> [ok |-> TRUE, n |-> 1]
      [] OTHER -> [ok |-> FALSE, n |-> 0]

\* float(s), a number being kept in tenths: kind is "num", "nan" or "error"
\* (ValueError).
float(s) ==
    CASE s = "-1" -> [kind |-> "num", tenths |-> 0 - 10]
      [] s = "0.5" -> [kind |-> "num", tenths |-> 5]
      [] s = "95.6" -> [kind |-> "num", tenths |-> 956]
      [] s = "100" -> [kind |-> "num", tenths |-> 1000]
      [] s = "105" -> [kind |-> "num", tenths |-> 1050]
      [] s = "nan" -> [kind |-> "nan", tenths |-> 0]
      [] OTHER -> [kind |-> "error", tenths |-> 0]

\* 0 <= value <= 100 (False for nan)
in_range(value) == value.kind = "num" /\ 0 <= value.tenths /\ value.tenths <= 1000

\* Mutant: int(value), the fraction cut off.
round_Truncate(value) == value.tenths \div 10

\* round(value): to the nearest integer, a half to the even one.
round(value) ==
    LET q == value.tenths \div 10
        r == value.tenths % 10
    IN  IF r < 5 THEN q
        ELSE IF r > 5 THEN q + 1
        ELSE IF q % 2 = 0 THEN q ELSE q + 1

\* The checks add_grade and edit_grade run on a POST: error tells whether one of
\* them failed, row is what is written otherwise.
grade_form(form) ==
    IF form.student_id = "" \/ form.course_id = "" \/ form.value = ""
    THEN [error |-> TRUE, row |-> <<>>]
    ELSE IF ~int(form.student_id).ok \/ ~int(form.course_id).ok
    THEN [error |-> TRUE, row |-> <<>>]
    ELSE IF float(form.value).kind = "error"
    THEN [error |-> TRUE, row |-> <<>>]
    ELSE IF ~in_range(float(form.value))
    THEN [error |-> TRUE, row |-> <<>>]
    ELSE [error |-> FALSE,
          row |-> [id_student |-> int(form.student_id).n,
                   id_course |-> int(form.course_id).n,
                   value |-> round(float(form.value))]]

\* get_session(session_id) as load_current_user calls it, the sweep reading the
\* clock at t0 and get_session at t: the store it leaves and what it returns.
load_current_user(S, session_id, t0, t) ==
    IF session_id = EmptyToken
    THEN [S |-> S, current |-> NoRecord]
    ELSE LET swept == LookupSweep(S, t0) IN
         IF session_id \notin DOMAIN swept
         THEN [S |-> swept, current |-> NoRecord]
         ELSE IF LookupExpired(swept[session_id], t)
         THEN [S |-> Pop(swept, session_id), current |-> NoRecord]
         ELSE [S |-> Put(swept, session_id, Extend(swept[session_id], t)),
               current |-> Extend(swept[session_id], t)]

\* Mutant: the decorator lets every request through.
login_required_Open(current) == TRUE

\* login_required: `if not current` is false for a record, true for None.
login_required(current) == current # NoRecord

\* response.set_cookie("session_id", session_id, max_age=SESSION_TTL_SECONDS) as
\* the browser keeps it: until max_age has passed since it was set.
set_cookie(session_id, t) == [sid |-> session_id, expires |-> t + SESSION_TTL_SECONDS]

\* The session_id cookie the browser sends: the one it holds, unless it has dropped
\* it.
BrowserCookie == IF jar.sid # EmptyToken /\ now <= jar.expires THEN jar.sid ELSE EmptyToken

\* The cookie a request can carry: the browser's own or none, or, from any other
\* client, any token (known or not).
Cookies(browser) == IF browser THEN {BrowserCookie} ELSE Tokens

CanRequest == req.n < MaxRequests

\* History: the visit of the browser after a request.
Visited(route, browser, cookie, t, fresh) ==
    IF ~visit.live THEN visit
    ELSE IF (route = "logout" /\ cookie = visit.sid) \/ fresh = visit.sid
    THEN [visit EXCEPT !.live = FALSE]
    ELSE IF ~browser THEN visit
    ELSE IF now - visit.at < SESSION_TTL_SECONDS
    THEN [visit EXCEPT !.at = t]
    ELSE [visit EXCEPT !.live = FALSE]

\* What every request does but for the store, the table and the cookie.
Request(route, method, browser, cookie, current, status, form, grade_id) ==
    /\ CanRequest
    /\ req' = [n |-> req.n + 1, route |-> route, method |-> method, browser |-> browser,
               cookie |-> cookie, current |-> current, status |-> status, form |-> form,
               grade_id |-> grade_id]
    /\ UNCHANGED <<now, ticks, last, lastTouch, destroyed, concVars>>

\* Any view that writes nothing (/, /grades, /api/session-status, GET /login, ...).
page(browser, cookie) ==
    LET g == load_current_user(SESSIONS, cookie, now, now) IN
    /\ Request("page", "GET", browser, cookie, g.current, "render", NoForm, 0)
    /\ SESSIONS' = g.S
    /\ visit' = Visited("page", browser, cookie, now, EmptyToken)
    /\ UNCHANGED <<points, seq, jar, owner>>

\* POST /login: found tells whether the users row is there and the password
\* checks; sid is the token create_session draws.
login(browser, cookie, user, found, sid) ==
    LET g == load_current_user(SESSIONS, cookie, now, now)
        t == now
    IN  IF found
        THEN /\ Request("login", "POST", browser, cookie, g.current, "redirect:root_index",
                        NoForm, 0)
             /\ SESSIONS' = Insert(CreateSweep(g.S, t), sid, NewRecord(user.id, user.login, t))
             /\ owner' = Put(owner, sid, user)
             /\ jar' = IF browser THEN set_cookie(sid, t) ELSE jar
             /\ visit' = IF browser
                         THEN [user_id |-> user.id, sid |-> sid, at |-> t, live |-> TRUE]
                         ELSE Visited("login", browser, cookie, t, sid)
             /\ UNCHANGED <<points, seq>>
        ELSE /\ sid = Min(token_urlsafe)
             /\ Request("login", "POST", browser, cookie, g.current, "render:error",
                        NoForm, 0)
             /\ SESSIONS' = g.S
             /\ visit' = Visited("login", browser, cookie, t, EmptyToken)
             /\ UNCHANGED <<points, seq, jar, owner>>

\* /logout: destroy_session(cookie), delete_cookie.
logout(browser, cookie) ==
    LET g == load_current_user(SESSIONS, cookie, now, now) IN
    /\ Request("logout", "GET", browser, cookie, g.current, "redirect:root_index",
               NoForm, 0)
    /\ SESSIONS' = DestroyStore(g.S, cookie)
    /\ jar' = IF browser THEN NoCookie ELSE jar
    /\ visit' = Visited("logout", browser, cookie, now, EmptyToken)
    /\ UNCHANGED <<points, seq, owner>>

\* /add-grade
add_grade(browser, cookie, method, form) ==
    LET g == load_current_user(SESSIONS, cookie, now, now)
        f == grade_form(form)
        insert == login_required(g.current) /\ method = "POST" /\ ~f.error
        status == IF ~login_required(g.current) THEN "redirect:login"
                  ELSE IF method = "GET" THEN "render"
                  ELSE IF f.error THEN "render:error"
                  ELSE "redirect:grades"
    IN  /\ insert => seq < MaxGrades
        /\ Request("add_grade", method, browser, cookie, g.current, status, form, 0)
        /\ SESSIONS' = g.S
        /\ points' = IF insert THEN Put(points, seq + 1, f.row) ELSE points
        /\ seq' = IF insert THEN seq + 1 ELSE seq
        /\ visit' = Visited("add_grade", browser, cookie, now, EmptyToken)
        /\ UNCHANGED <<jar, owner>>

\* /edit-grade/<grade_id>
edit_grade(browser, cookie, method, form, grade_id) ==
    LET g == load_current_user(SESSIONS, cookie, now, now)
        f == grade_form(form)
        update == /\ login_required(g.current) /\ grade_id \in DOMAIN points
                  /\ method = "POST" /\ ~f.error
        status == IF ~login_required(g.current) THEN "redirect:login"
                  ELSE IF grade_id \notin DOMAIN points THEN "404"
                  ELSE IF method = "GET" THEN "render"
                  ELSE IF f.error THEN "render:error"
                  ELSE "redirect:edit_grades_list"
    IN  /\ Request("edit_grade", method, browser, cookie, g.current, status, form, grade_id)
        /\ SESSIONS' = g.S
        /\ points' = IF update THEN Put(points, grade_id, f.row) ELSE points
        /\ visit' = Visited("edit_grade", browser, cookie, now, EmptyToken)
        /\ UNCHANGED <<seq, jar, owner>>

\* /delete-grade/<grade_id>
delete_grade(browser, cookie, method, grade_id) ==
    LET g == load_current_user(SESSIONS, cookie, now, now)
        delete == /\ login_required(g.current) /\ grade_id \in DOMAIN points
                  /\ method = "POST"
        status == IF ~login_required(g.current) THEN "redirect:login"
                  ELSE IF grade_id \notin DOMAIN points THEN "404"
                  ELSE IF method = "GET" THEN "render"
                  ELSE "redirect:edit_grades_list"
    IN  /\ Request("delete_grade", method, browser, cookie, g.current, status, NoForm,
                   grade_id)
        /\ SESSIONS' = g.S
        /\ points' = IF delete THEN Pop(points, grade_id) ELSE points
        /\ visit' = Visited("delete_grade", browser, cookie, now, EmptyToken)
        /\ UNCHANGED <<seq, jar, owner>>

NextApp ==
    \/ \E d \in AppDeltas : Tick(d)
    \/ \E b \in BOOLEAN : \E c \in Cookies(b) : page(b, c)
    \/ \E b \in BOOLEAN, user \in Users, found \in BOOLEAN :
          \E c \in Cookies(b), sid \in token_urlsafe : login(b, c, user, found, sid)
    \/ \E b \in BOOLEAN : \E c \in Cookies(b) : logout(b, c)
    \/ \E b \in BOOLEAN, method \in {"GET", "POST"} :
          \E c \in Cookies(b), form \in FormsOf(method) : add_grade(b, c, method, form)
    \/ \E b \in BOOLEAN, method \in {"GET", "POST"}, grade_id \in 1..MaxGrades :
          \E c \in Cookies(b), form \in FormsOf(method) :
             edit_grade(b, c, method, form, grade_id)
    \/ \E b \in BOOLEAN, method \in {"GET", "POST"},
          grade_id \in 1..MaxGrades :
          \E c \in Cookies(b) : delete_grade(b, c, method, grade_id)

SpecApp == Init /\ [][NextApp]_vars

\* ------------------------------------------------------------- claims
TTL == SESSION_TTL_SECONDS

\* This step is a call (not a clock tick).
IsCall == last'.n # last.n

\* C1: the token create_session(user_id, login) returns is one for which the
\* get_session that follows it (no call in between, at most the TTL later) returns a
\* record with exactly that user_id and login.
C1_CreateThenLookup ==
    [][(/\ last.op = "create"
        /\ IsCall /\ last'.op = "get" /\ last'.sid = last.sid
        /\ now' <= last.t + TTL)
       => (/\ last'.ok
           /\ last'.data.user_id = last.user_id
           /\ last'.data.login = last.login)]_vars

\* The second call is a lookup, a full TTL after the creation, that found the record.
C1_Witness ==
    /\ last.n = 2 /\ last.op = "get" /\ last.ok
    /\ last.t = last.data.created_at + TTL

\* C2: after destroy_session(token) the token is not in the store and every
\* get_session(token) returns None, until create_session returns that token again;
\* destroy_session with a token that is not in the store, or with an empty one,
\* leaves the store as it was.
C2_DestroyThenLookup ==
    /\ [](\A sid \in destroyed : sid \notin DOMAIN SESSIONS)
    /\ []((last.op = "get" /\ last.sid \in destroyed) => ~last.ok)
    /\ [][(/\ IsCall /\ last'.op = "destroy"
           /\ (last'.sid = EmptyToken \/ last'.sid \notin DOMAIN SESSIONS))
          => SESSIONS' = SESSIONS]_vars

\* A lookup of a created and then destroyed token, no time having passed.
C2_Witness ==
    /\ last.op = "get" /\ ~last.ok /\ ticks = 0
    /\ last.sid \in destroyed /\ last.sid \in issued

\* C3: the record create_session inserts, and the record get_session returns, is the
\* one stored under the token and has expires_at = (the clock value that call read)
\* + TTL, which is not earlier than the clock when the call returns.
C3_ExpiryIsNowPlusTTL ==
    [][(IsCall /\ last'.op \in {"create", "get"} /\ last'.ok)
       => (/\ last'.sid \in DOMAIN SESSIONS'
           /\ SESSIONS'[last'.sid] = last'.data
           /\ last'.t = now'
           /\ last'.data.expires_at = last'.t + TTL
           /\ last'.data.expires_at >= now')]_vars

\* A lookup later than the last touch returned the record.
C3_Witness == last.op = "get" /\ last.ok /\ last.t > last.prev /\ last.prev # NoTime

\* C4: a session (created, not destroyed) whose last touch is at most TTL/2 before a
\* call is still in the store after that call, whatever the call sweeps, and a lookup
\* of it then returns its record.
C4_TouchedNeverExpires ==
    [][\A sid \in DOMAIN lastTouch :
         (/\ IsCall
          /\ now' - lastTouch[sid] <= TTL \div 2
          /\ ~(last'.op = "destroy" /\ last'.sid = sid))
         => (/\ sid \in DOMAIN SESSIONS'
             /\ (last'.op = "get" /\ last'.sid = sid)
                => (last'.ok /\ last'.data = SESSIONS'[sid]))]_vars

\* A lookup at most TTL/2 after the previous touch found the record more than a TTL
\* after its creation.
C4_Witness ==
    /\ last.op = "get" /\ last.ok /\ last.prev # NoTime
    /\ last.t - last.prev <= TTL \div 2
    /\ last.t > last.data.created_at + TTL

\* C5: for a record whose last touch is more than the TTL before the clock of a
\* call: get_session on its token returns None, and a call that sweeps (create_session,
\* get_session with a token) at such a clock value removes it from SESSIONS.
C5_StaleIsUnreachable ==
    [][/\ (/\ IsCall /\ last'.op = "get"
           /\ last'.sid \in DOMAIN SESSIONS
           /\ lastTouch[last'.sid] + TTL < now')
          => (~last'.ok /\ last'.sid \notin DOMAIN SESSIONS')
       /\ (/\ IsCall
           /\ (last'.op = "create" \/ (last'.op = "get" /\ last'.sid # EmptyToken)))
          => \A k \in DOMAIN SESSIONS :
                lastTouch[k] + TTL < last'.t0
                => (k \notin DOMAIN SESSIONS' \/ (last'.op = "create" /\ last'.sid = k))]_vars

\* A call on another token swept a session touched more than a TTL before.
C5_Witness ==
    /\ last.op \in {"create", "get"}
    /\ \E k \in DOMAIN lastTouch \ DOMAIN SESSIONS :
          k # last.sid /\ lastTouch[k] + TTL < last.t0

\* C6 as stated: every successful get_session leaves expires_at strictly greater
\* than it found it.
C6_StrictlyIncreases ==
    [][(IsCall /\ last'.op = "get" /\ last'.ok)
       => (/\ last'.sid \in DOMAIN SESSIONS
           /\ SESSIONS'[last'.sid].expires_at > SESSIONS[last'.sid].expires_at)]_vars

\* C6 amended: a successful get_session never lowers expires_at, and raises it
\* exactly when the clock value (whole seconds) it reads is later than the one read
\* at the previous touch of the record.
C6_NeverDecreases ==
    [][(IsCall /\ last'.op = "get" /\ last'.ok)
       => LET sid == last'.sid IN
          /\ sid \in DOMAIN SESSIONS /\ sid \in DOMAIN lastTouch
          /\ SESSIONS'[sid].expires_at >= SESSIONS[sid].expires_at
          /\ (SESSIONS'[sid].expires_at > SESSIONS[sid].expires_at)
                <=> (last'.t > lastTouch[sid])]_vars

\* A lookup in the same second as the previous touch returned the record.
C6_Witness == last.op = "get" /\ last.ok /\ last.t = last.prev

\* C7 as stated: a session last touched at t is returned by get_session at a clock
\* value before t + TTL and is not at t + TTL or later.
C7_LostAtExactlyTTL ==
    [][(IsCall /\ last'.op = "get" /\ last'.sid \in DOMAIN lastTouch)
       => (last'.ok <=> now' < lastTouch[last'.sid] + TTL)]_vars

\* C7 amended: it is returned at a clock value up to and including t + TTL, and is
\* not from t + TTL + 1 on.
C7_LostAfterTTL ==
    [][(IsCall /\ last'.op = "get" /\ last'.sid \in DOMAIN lastTouch)
       => (last'.ok <=> now' <= lastTouch[last'.sid] + TTL)]_vars

\* A lookup exactly a TTL after the previous touch returned the record.
C7_Witness == last.op = "get" /\ last.ok /\ last.prev # NoTime /\ last.t = last.prev + TTL

\* C8 as stated: after any call of create_session, get_session or destroy_session
\* the store holds no record that had expired when the call began.
C8_EveryCallSweeps ==
    [][(IsCall /\ last'.op \in {"create", "get", "destroy"})
       => \A k \in DOMAIN SESSIONS' : ~(SESSIONS'[k].expires_at < last'.at)]_vars

\* C8 amended: that holds after create_session and after get_session with a
\* non-empty token; destroy_session, and get_session with an empty token, run no
\* sweep and leave every other record, expired or not, as it was.
C8_CreateAndLookupSweep ==
    [][/\ (/\ IsCall
           /\ (last'.op = "create" \/ (last'.op = "get" /\ last'.sid # EmptyToken)))
          => (/\ last'.t0 = last'.at
              /\ \A k \in DOMAIN SESSIONS' : ~(SESSIONS'[k].expires_at < last'.at))
       /\ (/\ IsCall
           /\ (last'.op = "destroy" \/ (last'.op = "get" /\ last'.sid = EmptyToken)))
          => \A k \in DOMAIN SESSIONS \ {last'.sid} :
                k \in DOMAIN SESSIONS' /\ SESSIONS'[k] = SESSIONS[k]]_vars

\* destroy_session returned and an expired record is still stored.
C8_Witness ==
    /\ last.op = "destroy"
    /\ \E k \in DOMAIN SESSIONS : SESSIONS[k].expires_at < last.at

\* What one call at a time guarantees, and the threads must keep. No call raises:
\* run alone, the sweep's iteration never sees the dict change.
NoCallRaises == \A th \in Threads : res[th].kind # "error"

\* The record get_session returns (and has extended) is the one stored under the
\* token when it returns.
ReturnedRecordIsStored == \A th \in Threads : res[th].kind = "record" => res[th].stored

\* A sweep removes only records that have expired at the clock value it read.
SweepRemovesOnlyExpired == lost = {}

\* C9: the calls of several request threads are atomic with respect to one
\* another, so each behaves as it does alone: none raises, get_session never returns
\* a record that a concurrent destroy_session or sweep has removed, and no sweep
\* removes a record that has not expired (a fresh or just extended one).
C9_CallsAreAtomic ==
    /\ NoCallRaises
    /\ ReturnedRecordIsStored
    /\ SweepRemovesOnlyExpired

\* C10 as stated: the token create_session returns differs from every token
\* returned before.
C10_TokensNeverRepeat ==
    [][(IsCall /\ last'.op = "create") => last'.sid \notin issued]_vars

\* C10 amended: create_session changes no record stored under another token that
\* has not expired, so it overwrites a record only when the token it draws is a key
\* of the store; and get_session resolves a token to the user_id and login of the
\* latest create_session that returned it.
C10_DistinctTokensOwnRecords ==
    [][/\ (IsCall /\ last'.op = "create")
          => \A k \in DOMAIN SESSIONS \ {last'.sid} :
                ~(SESSIONS[k].expires_at < last'.t0)
                => (k \in DOMAIN SESSIONS' /\ SESSIONS'[k] = SESSIONS[k])
       /\ (IsCall /\ last'.op = "get" /\ last'.ok)
          => (/\ last'.sid \in DOMAIN owner
              /\ last'.data.user_id = owner[last'.sid].id
              /\ last'.data.login = owner[last'.sid].login)]_vars

\* A lookup returned one user's record while another user's is stored under
\* another token.
C10_Witness ==
    /\ last.op = "get" /\ last.ok
    /\ \E k \in DOMAIN SESSIONS :
          k # last.sid /\ SESSIONS[k].user_id # last.data.user_id

\* The call of this step sweeps: create_session, or get_session with a token.
Sweeps == last'.op = "create" \/ (last'.op = "get" /\ last'.sid # EmptyToken)

\* destroy_session(t) leaves every record but t's as it was, expired ones included.
DestroyKeepsOthers ==
    (IsCall /\ last'.op = "destroy")
    => \A k \in DOMAIN SESSIONS \ {last'.sid} :
          k \in DOMAIN SESSIONS' /\ SESSIONS'[k] = SESSIONS[k]

\* get_session(t) and create_session leave every record under another token that
\* has not expired at the clock value of the call as it was.
SweepKeepsLiveOthers ==
    (IsCall /\ Sweeps)
    => \A k \in DOMAIN SESSIONS \ {last'.sid} :
          ~(SESSIONS[k].expires_at < last'.at)
          => (k \in DOMAIN SESSIONS' /\ SESSIONS'[k] = SESSIONS[k])

\* expires_at of a record that stays changes only in a successful get_session on
\* the record's own token.
OnlyLookupExtends ==
    \A k \in DOMAIN SESSIONS \cap DOMAIN SESSIONS' :
       SESSIONS'[k].expires_at # SESSIONS[k].expires_at
       => (IsCall /\ last'.sid = k
           /\ ((last'.op = "get" /\ last'.ok) \/ last'.op = "create"))

\* The record stored under token k keeps its user_id, login and created_at.
KeepsIdentity(k) ==
    /\ SESSIONS'[k].user_id = SESSIONS[k].user_id
    /\ SESSIONS'[k].login = SESSIONS[k].login
    /\ SESSIONS'[k].created_at = SESSIONS[k].created_at

\* C14 as stated: calls on one token leave the records under the other tokens as
\* they were (destroy_session all of them, get_session and create_session those not
\* expired), and no call changes the user_id, login or created_at of a stored
\* record: only expires_at changes, and only in a successful get_session on the
\* record's own token.
C14_NoRecordEverChanges ==
    [][/\ DestroyKeepsOthers
       /\ SweepKeepsLiveOthers
       /\ \A k \in DOMAIN SESSIONS \cap DOMAIN SESSIONS' :
             /\ KeepsIdentity(k)
             /\ SESSIONS'[k].expires_at # SESSIONS[k].expires_at
                => (IsCall /\ last'.op = "get" /\ last'.ok /\ last'.sid = k)]_vars

\* C14 amended: the same, but for the record stored under the token create_session
\* draws: when that token is already a key of the store (create_session does not
\* look), the new record replaces the one stored under it, all four fields.
C14_OnlyOwnTokenChanges ==
    [][/\ DestroyKeepsOthers
       /\ SweepKeepsLiveOthers
       /\ OnlyLookupExtends
       /\ \A k \in DOMAIN SESSIONS \cap DOMAIN SESSIONS' :
             KeepsIdentity(k) \/ (IsCall /\ last'.op = "create" /\ last'.sid = k)
       /\ (IsCall /\ last'.op = "create")
          => SESSIONS'[last'.sid] = NewRecord(last'.user_id, last'.login, last'.t)]_vars

\* create_session drew a token under which a record that had not expired was
\* stored, and a record under another token, created before, is still stored.
C14_Witness ==
    /\ last.op = "create" /\ last.prev # NoTime /\ last.prev + TTL >= last.at
    /\ \E k \in DOMAIN SESSIONS \ {last.sid} : SESSIONS[k].created_at < last.t

\* This step is a request.
IsRequest == req'.n # req.n

GradeRoutes == {"add_grade", "edit_grade", "delete_grade"}

\* C11: the points table changes only in a request to /add-grade, /edit-grade/<id>
\* or /delete-grade/<id> whose cookie is a token stored in SESSIONS with a record
\* that has not expired, that record being g.current_user of the request; and such
\* a request with no cookie, or with a token that is not stored (unknown, destroyed)
\* or whose record has expired, is redirected to the login page and leaves the table
\* as it was.
C11_GradesNeedSession ==
    [][/\ points' # points
          => (/\ IsRequest /\ req'.route \in GradeRoutes
              /\ req'.cookie \in DOMAIN SESSIONS
              /\ ~(SESSIONS[req'.cookie].expires_at < now)
              /\ req'.cookie \in DOMAIN SESSIONS'
              /\ req'.current = SESSIONS'[req'.cookie]
              /\ req'.current.expires_at >= now')
       /\ (/\ IsRequest /\ req'.route \in GradeRoutes
           /\ (\/ req'.cookie = EmptyToken
               \/ req'.cookie \notin DOMAIN SESSIONS
               \/ SESSIONS[req'.cookie].expires_at < now))
          => (req'.status = "redirect:login" /\ points' = points)]_vars

\* A POST to a grade route with the token of a session that is gone was sent to the
\* login page, the table holding a grade an earlier request wrote.
C11_Witness ==
    /\ req.route \in GradeRoutes /\ req.method = "POST"
    /\ req.status = "redirect:login"
    /\ req.cookie \in issued /\ req.cookie \notin DOMAIN SESSIONS
    /\ DOMAIN points # {}

\* C12: every request the browser sends less than a TTL after its previous one
\* (its login, or a request since), the session not having been destroyed, is
\* resolved by load_current_user to the session record of the user who logged in.
C12_ActiveStaysLoggedIn ==
    [][(/\ IsRequest /\ req'.browser
        /\ visit.live /\ now - visit.at < TTL)
       => (/\ req'.current # NoRecord
           /\ req'.current.user_id = visit.user_id)]_vars

\* C13: every value in the points table is an integer in 0..100; and a POST to
\* /add-grade or /edit-grade/<id> of an existing grade, by a user with a session,
\* with the other fields valid and a number as value, leaves the table as it was and
\* shows the form again when the number is outside 0..100, and otherwise writes the
\* row with the integer nearest to the number (at most a half away) as value.
C13_GradeInRangeRounded ==
    /\ [](\A id \in DOMAIN points : points[id].value \in 0..100)
    /\ [][(/\ IsRequest /\ req'.route \in {"add_grade", "edit_grade"}
           /\ req'.method = "POST" /\ req'.current # NoRecord
           /\ req'.route = "edit_grade" => req'.grade_id \in DOMAIN points
           /\ req'.form.student_id = "1" /\ req'.form.course_id = "1"
           /\ float(req'.form.value).kind = "num")
          => LET v == float(req'.form.value).tenths
                 id == IF req'.route = "add_grade" THEN seq + 1 ELSE req'.grade_id
             IN  IF v < 0 \/ v > 1000
                 THEN points' = points /\ req'.status = "render:error"
                 ELSE /\ id \in DOMAIN points'
                      /\ points'[id].value \in 0..100
                      /\ 10 * points'[id].value - v <= 5
                      /\ v - 10 * points'[id].value <= 5
                      /\ \A k \in DOMAIN points \ {id} :
                            k \in DOMAIN points' /\ points'[k] = points[k]
                      /\ req'.status \in {"redirect:grades", "redirect:edit_grades_list"}]_vars

\* The value 95.6 was submitted to /add-grade and the table holds 96.
C13_Witness ==
    /\ req.route = "add_grade" /\ req.form.value = "95.6"
    /\ req.status = "redirect:grades"
    /\ \E id \in DOMAIN points : points[id].value = 96

====
